---------------------------- MODULE Spec2Model ----------------------------
(***************************************************************************)
(* A model of the service bootstrap of askap.iceutils.Server              *)
(* (Code/Base/py-iceutils/current/askap/iceutils/server.py): the          *)
(* configuration stage (get_config, _config_from_fcm), the retry loop     *)
(* (wait_for_service), the monitoring adapter, the initialisation hook,   *)
(* descriptor binding, adapter activation and the final wait.             *)
(*                                                                         *)
(* Strings that the code takes apart are sequences of tokens: the token   *)
(* "=" stands for the character '=', so that startswith and split are     *)
(* computed and not assumed.  A dotted parameter key "<a>.<b>" is the     *)
(* pair <<a, b>>.                                                          *)
(***************************************************************************)
EXTENDS Integers, Sequences, FiniteSets, TLC

(***************************************************************************)
(* Bounds of the model.                                                    *)
(***************************************************************************)
\* the largest bounded retry budget explored
MaxRetries == 3
\* retryable failures the environment produces within one invocation (with
\* an unbounded budget the count would otherwise grow for ever); it lies
\* above RepeatThreshold so that the notice of line 154 is reached
MaxFailures == 12
\* descriptors registered in one run
MaxServices == 2

(***************************************************************************)
(* Program constants.                                                      *)
(***************************************************************************)
\* the attempt count at which the "Repeated 10+ times" notice is given
RepeatThreshold == 10
\* the budget that means "retry for ever" (the constructor's default)
Unbounded == -1

RetryBudgets == Unbounded .. MaxRetries

\* the exception classes wait_for_service catches and retries
Retryable ==
    { "ConnectionRefusedException", "NoEndpointException",
      "NotRegisteredException", "ConnectFailedException", "DNSException" }

\* exception classes of the broker that the except clause does not name
\* (none of them derives from a class it names)
NotRetryable == { "ConnectTimeoutException", "ObjectNotExistException" }

IceExceptions == Retryable \cup NotRetryable

\* the four call sites of wait_for_service
Sites == { "FCM", "mon", "IceStorm", "main" }

\* the servicename each call site passes
ServiceName(site) ==
    CASE site = "FCM"      -> "FCM"
      [] site = "IceStorm" -> "IceStorm"
      [] OTHER             -> "registry"

(***************************************************************************)
(* Values.                                                                 *)
(***************************************************************************)
NoneVal == "None"

\* what each callback returns when it does not raise: checkedCast gives a
\* typed proxy, or None when the object is of another type; activate
\* returns nothing
Returns(site) ==
    CASE site = "FCM"      -> { "IFCMServicePrx", NoneVal }
      [] site = "IceStorm" -> { "TopicManagerPrx", NoneVal }
      [] OTHER             -> { NoneVal }

ServiceKey == "cp.ingest"

Join(a, b) == <<a, b>>

EmptyDict == <<>>

\* self.parameters is None or a dict
ParamsNone == [none |-> TRUE, d |-> EmptyDict]
ParamsOf(d) == [none |-> FALSE, d |-> d]

(***************************************************************************)
(* The command line.                                                       *)
(***************************************************************************)
ConfigKey == << "--config", "=" >>

\* arg.startswith(key)
StartsWith(arg, key) ==
    /\ Len(arg) >= Len(key)
    /\ SubSeq(arg, 1, Len(key)) = key

\* arg.split("="): the pieces between the '=' tokens
RECURSIVE SplitFrom(_, _, _)
SplitFrom(arg, i, cur) ==
    IF i > Len(arg) THEN << cur >>
    ELSE IF arg[i] = "=" THEN << cur >> \o SplitFrom(arg, i + 1, << >>)
    ELSE SplitFrom(arg, i + 1, Append(cur, arg[i]))

Split(arg) == SplitFrom(arg, 1, << >>)

\* os.path.expandvars: a $VAR token is replaced by the variable's value
ExpandVars(p) ==
    [i \in 1..Len(p) |-> IF p[i] = "$CFGDIR" THEN "/etc/askap" ELSE p[i]]

\* os.path.expanduser: a leading ~ is replaced by the home directory
ExpandUser(p) ==
    IF Len(p) > 0 /\ p[1] = "~" THEN << "/home/askap" >> \o Tail(p) ELSE p

ExpandPath(v) == ExpandUser(ExpandVars(v))

\* the index of the first argument that starts with --config=, or 0
RECURSIVE FirstConfigArg(_, _)
FirstConfigArg(args, i) ==
    IF i > Len(args) THEN 0
    ELSE IF StartsWith(args[i], ConfigKey) THEN i
    ELSE FirstConfigArg(args, i + 1)

HasConfigArg(args) == FirstConfigArg(args, 1) # 0

(***************************************************************************)
(* The files of the host and the parset reader.                            *)
(***************************************************************************)
GoodText  == << << Join(ServiceKey, "retries"), "=", "3" >>,
                << Join(ServiceKey, "host"), "=", "localhost" >> >>
OtherText == << << Join(ServiceKey, "host"), "=", "otherhost" >> >>
BadText   == << << Join(ServiceKey, "retries"), "3" >> >>

ExistingFiles ==
    { << "/home/askap", "/svc.cfg" >>, << "/etc/askap", "/other.cfg" >>,
      << "bad.cfg" >> }

FileText(p) ==
    CASE p = << "/home/askap", "/svc.cfg" >>  -> GoodText
      [] p = << "/etc/askap", "/other.cfg" >> -> OtherText
      [] OTHER                                -> BadText

\* a parset line is  key = value
WellFormed(text) ==
    \A i \in 1..Len(text) : Len(text[i]) = 3 /\ text[i][2] = "="

\* parset_to_dict: later lines win
RECURSIVE DictOfLines(_, _)
DictOfLines(text, n) ==
    IF n = 0 THEN EmptyDict
    ELSE LET rest == DictOfLines(text, n - 1)
             k    == text[n][1]
         IN  [x \in (DOMAIN rest) \cup {k} |->
                 IF x = k THEN text[n][3] ELSE rest[x]]

ParsetToDict(text) == DictOfLines(text, Len(text))

\* the command lines explored
ProgArg == << "manager.py" >>
Argvs ==
    { << ProgArg >>,
      << ProgArg, << "--config", "=", "~", "/svc.cfg" >> >>,
      << ProgArg, << "--verbose" >>,
         << "--config", "=", "$CFGDIR", "/other.cfg" >>,
         << "--config", "=", "~", "/svc.cfg" >> >>,
      << ProgArg, << "--config", "=", "missing.cfg" >> >>,
      << ProgArg, << "--config", "=", "bad.cfg" >> >>,
      << ProgArg, << "--config", "=", "a", "=", "b.cfg" >> >> }

\* what fcm.get(-1, service_key) may answer
FcmDicts ==
    { EmptyDict,
      ParsetToDict(GoodText) }

(***************************************************************************)
(* get_config's reading of the command line: "skip" when the service is    *)
(* not configurable, else the outcome of the first --config= argument      *)
(* ("local" with the dict read, or the exception raised), else "fcm".      *)
(***************************************************************************)
LocalConfig(arg) ==
    LET parts == Split(arg)
    IN  IF Len(parts) # 2 THEN [kind |-> "raise", exc |-> "ValueError"]
        ELSE LET p == ExpandPath(parts[2])
             IN  IF p \notin ExistingFiles
                 THEN [kind |-> "raise", exc |-> "IOError"]
                 ELSE IF ~WellFormed(FileText(p))
                 THEN [kind |-> "raise", exc |-> "ParsetError"]
                 ELSE [kind |-> "local", d |-> ParsetToDict(FileText(p))]

\* the return of line 102 left out: the FCM is asked all the same
ConfigSource_IgnoresFlag(isConfigurable, args) ==
    IF ~isConfigurable THEN [kind |-> "skip"] ELSE [kind |-> "fcm"]

ConfigSource(isConfigurable, args) ==
    IF ~isConfigurable THEN [kind |-> "skip"]
    ELSE IF HasConfigArg(args)
    THEN LocalConfig(args[FirstConfigArg(args, 1)])
    ELSE [kind |-> "fcm"]


(***************************************************************************)
(* The state.                                                              *)
(***************************************************************************)
VARIABLES
    pc,            \* where the main line of control is
    argv,          \* sys.argv
    _retries,      \* self._retries
    configurable,  \* self.configurable
    monitoring,    \* self.monitoring
    parameters,    \* self.parameters
    _services,     \* self._services
    _adapter,      \* self._adapter
    _mon_adapter,  \* self._mon_adapter
    w,             \* the frame of the running wait_for_service call
    err,           \* the exception that ended the run, and where
    envUp,         \* every remote operation succeeds from now on
    fcmProxy,      \* what stringToProxy gave for the FCM: "no", "null", "prx"
    waited,        \* the call sites that have entered wait_for_service
    configured,    \* get_config has returned
    hook,          \* initialize_services: "no", "in", "done"
    hookRegs,      \* Len(_services) when the hook returned
    gp,            \* the last get_parameter call and its outcome
    cls,           \* the class of the object: Server or IngestManager
    topics,        \* the topics "sbstatechange" held by the topic manager
    topic,         \* initialize_services: the local topic
    adapter,       \* initialize_services: the local adapter
    subscriptions, \* the subscriptions made at the topic
    cpc,           \* where each of two side-by-side callers is
    cw,            \* their wait_for_service frames
    ctopic,        \* the topic each of them holds
    cerr,          \* the exception that ended each of them
    cpath,         \* the calls each of them has made on the topic manager
    creates        \* the number of create calls that succeeded

ingestVars == << cls, topics, topic, adapter, subscriptions >>

callerVars == << cpc, cw, ctopic, cerr, cpath, creates >>

vars == << pc, argv, _retries, configurable, monitoring, parameters,
           _services, _adapter, _mon_adapter, w, err, envUp, fcmProxy,
           waited, configured, hook, hookRegs, gp, cls, topics, topic,
           adapter, subscriptions, cpc, cw, ctopic, cerr, cpath, creates >>

Classes == { "Server", "IngestManager" }
Callers == { 1, 2 }

NoAdapter == [created |-> FALSE, bound |-> << >>, tried |-> FALSE,
              active |-> FALSE]

\* an adapter that is handed out without having been created
NewAdapter_Missing == NoAdapter

\* createObjectAdapter, createObjectAdapterWithEndpoints
NewAdapter == [NoAdapter EXCEPT !.created = TRUE]

NoErr == [kind |-> "none", at |-> "none"]

NoCall == [called |-> FALSE]

\* line 136: delay = 5.0, in seconds
Delay == 5

IdleFrame ==
    [site |-> "none", servicename |-> "none", status |-> "idle",
     count |-> 0, calls |-> 0,
     fails |-> 0, sleeps |-> 0, registry |-> FALSE, retval |-> NoneVal,
     produced |-> NoneVal, raised |-> "none",
     waiting |-> 0, repeated |-> 0, found |-> 0,
     delay |-> Delay, slept |-> 0]

\* lines 135-138: the locals of a fresh call
NewFrame(site) ==
    [IdleFrame EXCEPT !.site = site, !.servicename = ServiceName(site),
                      !.status = "calling"]

\* Server.__init__ and the subclass constructor: the flags and the budget
\* are the constructor's choice
Init ==
    /\ pc = "created"
    /\ argv \in Argvs
    /\ _retries \in RetryBudgets
    /\ configurable \in BOOLEAN
    /\ monitoring \in BOOLEAN
    /\ parameters = ParamsNone
    /\ _services = << >>
    /\ _adapter = NoAdapter
    /\ _mon_adapter = NoAdapter
    /\ w = IdleFrame
    /\ err = NoErr
    /\ envUp = FALSE
    /\ fcmProxy = "no"
    /\ waited = {}
    /\ configured = FALSE
    /\ hook = "no"
    /\ hookRegs = 0
    /\ gp = NoCall
    /\ cls \in Classes
    /\ cls = "IngestManager" => (monitoring /\ configurable)
    /\ topics = {}
    /\ topic = NoneVal
    /\ adapter = NoAdapter
    /\ subscriptions = << >>
    /\ cpc = [p \in Callers |-> "idle"]
    /\ cw = [p \in Callers |-> IdleFrame]
    /\ ctopic = [p \in Callers |-> NoneVal]
    /\ cerr = [p \in Callers |-> "none"]
    /\ cpath = [p \in Callers |-> << >>]
    /\ creates = 0

\* an uncaught exception ends the run
Raise(kind, at) ==
    /\ pc' = "failed"
    /\ err' = [kind |-> kind, at |-> at]

(***************************************************************************)
(* set_retries (deprecated): called by the owner of the server before run  *)
(***************************************************************************)
set_retries(r) ==
    /\ pc = "created"
    /\ r # _retries
    /\ _retries' = r
    /\ UNCHANGED << pc, argv, configurable, monitoring, parameters,
                    _services, _adapter, _mon_adapter, w, err, envUp,
                    fcmProxy, waited, configured, hook, hookRegs, gp >>
    /\ UNCHANGED << ingestVars, callerVars >>

(***************************************************************************)
(* run -> setup_services, lines 166-167: the main adapter is created       *)
(***************************************************************************)
\* setup_services without its call of get_config
run_SkipsConfig ==
    /\ pc = "created"
    /\ _adapter' = NewAdapter
    /\ pc' = "monitoring"
    /\ UNCHANGED << argv, _retries, configurable, monitoring, parameters,
                    _services, _mon_adapter, w, err, envUp, fcmProxy,
                    waited, configured, hook, hookRegs, gp >>
    /\ UNCHANGED << ingestVars, callerVars >>

run ==
    /\ pc = "created"
    /\ _adapter' = NewAdapter
    /\ pc' = "get_config"
    /\ UNCHANGED << argv, _retries, configurable, monitoring, parameters,
                    _services, _mon_adapter, w, err, envUp, fcmProxy,
                    waited, configured, hook, hookRegs, gp >>
    /\ UNCHANGED << ingestVars, callerVars >>

(***************************************************************************)
(* get_config, lines 93-103                                                *)
(***************************************************************************)
get_config ==
    /\ pc = "get_config"
    /\ LET src == ConfigSource(configurable, argv)
       IN  CASE src.kind = "skip" ->
                  /\ pc' = "monitoring"
                  /\ configured' = TRUE
                  /\ UNCHANGED << parameters, err >>
             [] src.kind = "local" ->
                  /\ parameters' = ParamsOf(src.d)
                  /\ pc' = "monitoring"
                  /\ configured' = TRUE
                  /\ UNCHANGED err
             [] src.kind = "raise" ->
                  /\ Raise(src.exc, "get_config")
                  /\ UNCHANGED << parameters, configured >>
             [] OTHER ->
                  /\ pc' = "config_from_fcm"
                  /\ UNCHANGED << parameters, configured, err >>
    /\ UNCHANGED << argv, _retries, configurable, monitoring, _services,
                    _adapter, _mon_adapter, w, envUp, fcmProxy, waited,
                    hook, hookRegs, gp >>
    /\ UNCHANGED << ingestVars, callerVars >>

(***************************************************************************)
(* _config_from_fcm, lines 106-111: the proxy is resolved; no proxy is a   *)
(* RuntimeError, else wait_for_service("FCM", checkedCast, prxy) starts    *)
(***************************************************************************)
\* the test of line 107 left out
InvalidProxy_Unchecked(prxy) == FALSE

\* line 107: if not prxy
InvalidProxy(prxy) == prxy = "null"

_config_from_fcm ==
    /\ pc = "config_from_fcm"
    /\ \E prxy \in { "null", "prx" } :
          /\ fcmProxy' = prxy
          /\ IF InvalidProxy(prxy)
             THEN /\ Raise("RuntimeError", "config_from_fcm")
                  /\ UNCHANGED << w, waited >>
             ELSE /\ pc' = "wfs"
                  /\ w' = NewFrame("FCM")
                  /\ waited' = waited \cup { "FCM" }
                  /\ UNCHANGED err
    /\ UNCHANGED << argv, _retries, configurable, monitoring, parameters,
                    _services, _adapter, _mon_adapter, envUp, configured,
                    hook, hookRegs, gp >>
    /\ UNCHANGED << ingestVars, callerVars >>


(***************************************************************************)
(* wait_for_service, lines 135-163.  One step is one pass of the loop      *)
(* body up to the sleep (or to the return or the raise); the sleep's       *)
(* return is a step of its own.                                            *)
(***************************************************************************)
\* the except clause without Ice.DNSException
IsRetryable_NoDNS(e) == e \in Retryable \ { "DNSException" }

\* a bare "except Exception"
IsRetryable_All(e) == TRUE

\* the except clause without Ice.ConnectionRefusedException
IsRetryable_NoRefused(e) == e \in Retryable \ { "ConnectionRefusedException" }

\* lines 143-147: the classes of the except clause
IsRetryable(e) == e \in Retryable

\* the budget counted as a number of calls, not of retries
BudgetSpent_OffByOne(retries, count) == retries > -1 /\ retries = count + 1

\* the test without its guard for the unbounded budget
BudgetSpent_NoSentinel(retries, count) == count >= retries

\* line 148
BudgetSpent(retries, count) == retries > -1 /\ retries = count

\* retval is not assigned from the callback
OnSuccess_DropsValue(f, v) ==
    [f EXCEPT !.calls = @ + 1, !.produced = v, !.retval = NoneVal,
              !.registry = TRUE, !.raised = "none",
              !.found = @ + 1, !.status = "returned"]

\* lines 141-142 and 160-163: the callback returned v
OnSuccess(f, v) ==
    [f EXCEPT !.calls = @ + 1, !.produced = v, !.retval = v,
              !.registry = TRUE, !.raised = "none",
              !.found = @ + 1, !.status = "returned"]

\* lines 149-151: the budget is spent, TimeoutError is raised
OnExhausted(f, e) ==
    [f EXCEPT !.calls = @ + 1, !.fails = @ + 1, !.raised = e,
              !.status = "timeout"]

\* "Waiting for" printed for the first failure only
OnRetry_WaitingOnce(f, e) ==
    [f EXCEPT !.calls = @ + 1, !.fails = @ + 1, !.raised = "none",
              !.waiting = IF f.count = 0 THEN @ + 1 ELSE @,
              !.repeated = IF f.count = RepeatThreshold THEN @ + 1 ELSE @,
              !.registry = FALSE,
              !.count = @ + 1,
              !.sleeps = @ + 1,
              !.slept = @ + f.delay,
              !.status = "sleeping"]

\* a delay that doubles with every retry
OnRetry_Backoff(f, e) ==
    [f EXCEPT !.calls = @ + 1, !.fails = @ + 1, !.raised = "none",
              !.waiting = IF f.count < RepeatThreshold THEN @ + 1 ELSE @,
              !.repeated = IF f.count = RepeatThreshold THEN @ + 1 ELSE @,
              !.registry = FALSE,
              !.count = @ + 1,
              !.sleeps = @ + 1,
              !.slept = @ + f.delay,
              !.delay = 2 * @,
              !.status = "sleeping"]

\* count += 2
OnRetry_CountsTwice(f, e) ==
    [f EXCEPT !.calls = @ + 1, !.fails = @ + 1, !.raised = "none",
              !.waiting = IF f.count < RepeatThreshold THEN @ + 1 ELSE @,
              !.repeated = IF f.count = RepeatThreshold THEN @ + 1 ELSE @,
              !.registry = FALSE,
              !.count = @ + 2,
              !.sleeps = @ + 1,
              !.slept = @ + f.delay,
              !.status = "sleeping"]

\* lines 152-159: notices, count += 1, time.sleep(delay)
OnRetry(f, e) ==
    [f EXCEPT !.calls = @ + 1, !.fails = @ + 1, !.raised = "none",
              !.waiting = IF f.count < RepeatThreshold THEN @ + 1 ELSE @,
              !.repeated = IF f.count = RepeatThreshold THEN @ + 1 ELSE @,
              !.registry = FALSE,
              !.count = @ + 1,
              !.sleeps = @ + 1,
              !.slept = @ + f.delay,
              !.status = "sleeping"]

\* an exception the except clause does not catch leaves the function
OnUncaught(f, e) ==
    [f EXCEPT !.calls = @ + 1, !.raised = e, !.status = "fatal"]

\* what a remote operation may do now: return, or raise a broker exception
\* (a retryable one at most MaxFailures times in a row)
Outcomes(f) ==
    IF envUp THEN { "ok" }
    ELSE { "ok" } \cup NotRetryable
         \cup (IF f.fails < MaxFailures THEN Retryable ELSE {})

\* adapter.activate() went through
Activated(ad) == [ad EXCEPT !.tried = TRUE, !.active = TRUE]
\* adapter.activate() raised
Attempted(ad) == [ad EXCEPT !.tried = TRUE]

\* the budget read from the loaded configuration instead
Budget_FromConfig ==
    IF ~parameters.none /\ Join(ServiceKey, "retries") \in DOMAIN parameters.d
    THEN 3 ELSE _retries

\* line 148: the budget is self._retries, whatever the configuration holds
Budget == _retries

wfs_call ==
    /\ pc = "wfs"
    /\ w.status = "calling"
    /\ \E o \in Outcomes(w) :
          IF o = "ok"
          THEN /\ \E v \in Returns(w.site) : w' = OnSuccess(w, v)
               /\ pc' = "ret"
               /\ _adapter' = IF w.site = "main"
                              THEN Activated(_adapter) ELSE _adapter
               /\ _mon_adapter' = IF w.site = "mon"
                                  THEN Activated(_mon_adapter)
                                  ELSE _mon_adapter
               /\ UNCHANGED err
          ELSE /\ _adapter' = IF w.site = "main"
                              THEN Attempted(_adapter) ELSE _adapter
               /\ _mon_adapter' = IF w.site = "mon"
                                  THEN Attempted(_mon_adapter)
                                  ELSE _mon_adapter
               /\ IF IsRetryable(o)
                  THEN IF BudgetSpent(Budget, w.count)
                       THEN /\ w' = OnExhausted(w, o)
                            /\ Raise("TimeoutError", w.site)
                       ELSE /\ w' = OnRetry(w, o)
                            /\ UNCHANGED << pc, err >>
                  ELSE /\ w' = OnUncaught(w, o)
                       /\ Raise(o, w.site)
    /\ UNCHANGED << argv, _retries, configurable, monitoring, parameters,
                    _services, envUp, fcmProxy, waited, configured, hook,
                    hookRegs, gp >>
    /\ UNCHANGED << ingestVars, callerVars >>

\* line 159 returns: back to the head of the loop, line 139
wfs_sleep ==
    /\ pc = "wfs"
    /\ w.status = "sleeping"
    /\ w' = [w EXCEPT !.status = "calling"]
    /\ UNCHANGED << pc, argv, _retries, configurable, monitoring,
                    parameters, _services, _adapter, _mon_adapter, err,
                    envUp, fcmProxy, waited, configured, hook, hookRegs,
                    gp >>
    /\ UNCHANGED << ingestVars, callerVars >>

(***************************************************************************)
(* _config_from_fcm, lines 109-113: fcm = the value returned;              *)
(* self.parameters = fcm.get(-1, self.service_key)                         *)
(***************************************************************************)
fcm_get ==
    /\ pc = "ret"
    /\ w.site = "FCM"
    /\ w' = IdleFrame
    /\ IF w.retval = NoneVal
       THEN /\ Raise("AttributeError", "config_from_fcm")
            /\ UNCHANGED << parameters, configured >>
       ELSE \E o \in ({ "ok" } \cup (IF envUp THEN {} ELSE IceExceptions)) :
               IF o = "ok"
               THEN /\ \E d \in FcmDicts : parameters' = ParamsOf(d)
                    /\ configured' = TRUE
                    /\ pc' = "monitoring"
                    /\ UNCHANGED err
               ELSE /\ Raise(o, "config_from_fcm")
                    /\ UNCHANGED << parameters, configured >>
    /\ UNCHANGED << argv, _retries, configurable, monitoring, _services,
                    _adapter, _mon_adapter, envUp, fcmProxy, waited, hook,
                    hookRegs, gp >>
    /\ UNCHANGED << ingestVars, callerVars >>


(***************************************************************************)
(* setup_services, lines 171-177: the monitoring adapter                   *)
(***************************************************************************)
MonitoringIdentity == "MonitoringService"

Descriptor(name, value) == [name |-> name, value |-> value]

Names(bound) == { bound[i].name : i \in 1..Len(bound) }

\* ObjectAdapter.add: an identity is bound at most once in an adapter
CanAdd(ad, name) == name \notin Names(ad.bound)

Add(ad, name, value) ==
    [ad EXCEPT !.bound = Append(@, Descriptor(name, value))]

\* the test of line 171 left out
MonitoringWanted_Always(flag) == TRUE

\* line 171: if self.monitoring
MonitoringWanted(flag) == flag

\* line 177 left out: the monitoring adapter is never activated
setup_monitoring_NoWait ==
    /\ pc = "monitoring"
    /\ IF monitoring
       THEN _mon_adapter' =
               Add(NewAdapter,
                   MonitoringIdentity, "MonitoringProviderImpl")
       ELSE UNCHANGED _mon_adapter
    /\ pc' = "initialize"
    /\ UNCHANGED << argv, _retries, configurable, monitoring, parameters,
                    _services, _adapter, w, waited, err, envUp, fcmProxy,
                    configured, hook, hookRegs, gp >>
    /\ UNCHANGED << ingestVars, callerVars >>

setup_monitoring ==
    /\ pc = "monitoring"
    /\ IF MonitoringWanted(monitoring)
       THEN /\ _mon_adapter' =
                  Add(NewAdapter,
                      MonitoringIdentity, "MonitoringProviderImpl")
            /\ w' = NewFrame("mon")
            /\ waited' = waited \cup { "mon" }
            /\ pc' = "wfs"
       ELSE /\ pc' = "initialize"
            /\ UNCHANGED << _mon_adapter, w, waited >>
    /\ UNCHANGED << argv, _retries, configurable, monitoring, parameters,
                    _services, _adapter, err, envUp, fcmProxy, configured,
                    hook, hookRegs, gp >>
    /\ UNCHANGED << ingestVars, callerVars >>

\* line 177 returns
monitoring_ready ==
    /\ pc = "ret"
    /\ w.site = "mon"
    /\ w' = IdleFrame
    /\ pc' = "initialize"
    /\ UNCHANGED << argv, _retries, configurable, monitoring, parameters,
                    _services, _adapter, _mon_adapter, err, envUp, fcmProxy,
                    waited, configured, hook, hookRegs, gp >>
    /\ UNCHANGED << ingestVars, callerVars >>

(***************************************************************************)
(* setup_services, line 180: initialize_services, the hook of the derived  *)
(* class.  It calls add_service and get_parameter as it likes, and returns *)
(* or raises.                                                              *)
(***************************************************************************)
ServiceNames == { "CentralProcessorService", "ObsService" }
Implementations == { "impl1", "impl2" }
ParamKeys == { "retries", "absent" }
Defaults == { NoneVal, "5" }

\* the hook called ahead of the monitoring block of lines 171-177
initialize_services_Early ==
    /\ pc \in { "monitoring", "initialize" }
    /\ pc' = IF cls = "IngestManager" THEN "register" ELSE "hook"
    /\ hook' = "in"
    /\ UNCHANGED << argv, _retries, configurable, monitoring, parameters,
                    _services, _adapter, _mon_adapter, w, err, envUp,
                    fcmProxy, waited, configured, hookRegs, gp >>
    /\ UNCHANGED << ingestVars, callerVars >>

initialize_services ==
    /\ pc = "initialize"
    /\ pc' = IF cls = "IngestManager" THEN "register" ELSE "hook"
    /\ hook' = "in"
    /\ UNCHANGED << argv, _retries, configurable, monitoring, parameters,
                    _services, _adapter, _mon_adapter, w, err, envUp,
                    fcmProxy, waited, configured, hookRegs, gp >>
    /\ UNCHANGED << ingestVars, callerVars >>

\* a registry keyed by name: a repeated name replaces the earlier entry
Registered_ByName(services, name, value) ==
    IF \E i \in 1..Len(services) : services[i].name = name
    THEN [i \in 1..Len(services) |->
             IF services[i].name = name THEN Descriptor(name, value)
             ELSE services[i]]
    ELSE Append(services, Descriptor(name, value))

\* line 208: self._services.append({'name': name, 'value': value})
Registered(services, name, value) ==
    Append(services, Descriptor(name, value))

\* add_service, line 208
add_service(name, value) ==
    /\ pc \in { "hook", "running" }
    /\ Len(_services) < MaxServices
    /\ _services' = Registered(_services, name, value)
    /\ UNCHANGED << pc, argv, _retries, configurable, monitoring,
                    parameters, _adapter, _mon_adapter, w, err, envUp,
                    fcmProxy, waited, configured, hook, hookRegs, gp >>
    /\ UNCHANGED << ingestVars, callerVars >>

\* get_parameter, line 124: None has no get; dict.get gives the default
\* for a key that is not there
Lookup(params, svckey, key, default) ==
    IF params.none
    THEN [called |-> TRUE, key |-> key, default |-> default,
          raised |-> TRUE, value |-> "AttributeError"]
    ELSE [called |-> TRUE, key |-> key, default |-> default,
          raised |-> FALSE,
          value |-> IF Join(svckey, key) \in DOMAIN params.d
                    THEN params.d[Join(svckey, key)] ELSE default]

get_parameter(key, default) ==
    /\ pc \in { "hook", "running" }
    /\ gp' = Lookup(parameters, ServiceKey, key, default)
    /\ gp' # gp
    /\ IF gp'.raised /\ pc = "hook"
       THEN Raise("AttributeError", "hook")
       ELSE UNCHANGED << pc, err >>
    /\ UNCHANGED << argv, _retries, configurable, monitoring, parameters,
                    _services, _adapter, _mon_adapter, w, envUp, fcmProxy,
                    waited, configured, hook, hookRegs >>
    /\ UNCHANGED << ingestVars, callerVars >>

\* the hook raises an exception of its own
hook_raises ==
    /\ pc = "hook"
    /\ Raise("InitializationError", "hook")
    /\ UNCHANGED << argv, _retries, configurable, monitoring, parameters,
                    _services, _adapter, _mon_adapter, w, envUp, fcmProxy,
                    waited, configured, hook, hookRegs, gp >>
    /\ UNCHANGED << ingestVars, callerVars >>

hook_returns ==
    /\ pc = "hook"
    /\ hook' = "done"
    /\ hookRegs' = Len(_services)
    /\ gp' = NoCall
    /\ pc' = "bind"
    /\ UNCHANGED << argv, _retries, configurable, monitoring, parameters,
                    _services, _adapter, _mon_adapter, w, err, envUp,
                    fcmProxy, waited, configured >>
    /\ UNCHANGED << ingestVars, callerVars >>

(***************************************************************************)
(* IngestManager.initialize_services, ingest/server.py lines 19-56         *)
(***************************************************************************)
IngestService == "CentralProcessorService"
IngestImplementation == "CPObsServiceImp"
SubscriberIdentity == "uuid"
SubscriberImplementation == "JIRAStateChangeMonitor"

\* a call made directly on a proxy or on the communicator: it returns, or
\* raises an Ice exception while the environment is not up
DirectOutcomes == { "ok" } \cup (IF envUp THEN {} ELSE IceExceptions)

\* the topic manager refuses no create
CanCreate_Always(store) == TRUE

\* TopicManager.create raises TopicExists when the name is taken
CanCreate(store) == store = {}

\* the topic objects the manager can hand out
TopicIds == << "topic1", "topic2", "topic3" >>

NewTopic(store) == TopicIds[Cardinality(store) + 1]

\* TopicManager.create: a new topic
Created(store) == store \cup { NewTopic(store) }

\* the steps of lines 47-50, inside the try of line 46
TrySteps == { "subscriber_adapter", "adapter_activate", "subscribe" }

\* no try around lines 47-50
Surfaced_Raw(step, e) == e

\* lines 46-53: what the caller of the hook sees of the exception e raised
\* at step: the bare except of line 52 turns it into RuntimeError
Surfaced(step, e) == IF step \in TrySteps THEN "RuntimeError" ELSE e

\* lines 22-36: CPObsServiceImp(self.fcm) is registered, the monitor is
\* started and the topic manager is looked up in wait_for_service.  Server
\* never assigns self.fcm: whether the attribute is there is up to whoever
\* built the object
ingest_register ==
    /\ pc = "register"
    /\ \E hasFcm \in BOOLEAN :
          IF hasFcm
          THEN /\ _services' =
                     Registered(_services, IngestService, IngestImplementation)
               /\ w' = NewFrame("IceStorm")
               /\ waited' = waited \cup { "IceStorm" }
               /\ pc' = "wfs"
               /\ UNCHANGED err
          ELSE /\ Raise("AttributeError", "register")
               /\ UNCHANGED << _services, w, waited >>
    /\ UNCHANGED << argv, _retries, configurable, monitoring, parameters,
                    _adapter, _mon_adapter, envUp, fcmProxy, configured,
                    hook, hookRegs, gp >>
    /\ UNCHANGED << ingestVars, callerVars >>

\* lines 38-40: manager.retrieve(topicname)
manager_retrieve ==
    /\ pc = "ret"
    /\ w.site = "IceStorm"
    /\ w' = IdleFrame
    /\ IF w.retval = NoneVal
       THEN /\ Raise(Surfaced("retrieve", "AttributeError"), "retrieve")
            /\ UNCHANGED topic
       ELSE \E o \in DirectOutcomes :
               IF o = "ok"
               THEN /\ IF topics = {}
                       THEN pc' = "create" /\ UNCHANGED topic
                       ELSE /\ \E t \in topics : topic' = t
                            /\ pc' = "subscriber_adapter"
                    /\ UNCHANGED err
               ELSE /\ Raise(Surfaced("retrieve", o), "retrieve")
                    /\ UNCHANGED topic
    /\ UNCHANGED << argv, _retries, configurable, monitoring, parameters,
                    _services, _adapter, _mon_adapter, envUp, fcmProxy,
                    waited, configured, hook, hookRegs, gp >>
    /\ UNCHANGED << cls, topics, adapter, subscriptions, callerVars >>

\* lines 41-42: manager.create(topicname)
manager_create ==
    /\ pc = "create"
    /\ \E o \in DirectOutcomes :
          IF o = "ok"
          THEN /\ IF CanCreate(topics)
                  THEN /\ topics' = Created(topics)
                       /\ topic' = NewTopic(topics)
                       /\ pc' = "subscriber_adapter"
                  ELSE /\ pc' = "retrieve_again"
                       /\ UNCHANGED << topics, topic >>
               /\ UNCHANGED err
          ELSE /\ Raise(Surfaced("create", o), "create")
               /\ UNCHANGED << topics, topic >>
    /\ UNCHANGED << argv, _retries, configurable, monitoring, parameters,
                    _services, _adapter, _mon_adapter, w, envUp, fcmProxy,
                    waited, configured, hook, hookRegs, gp >>
    /\ UNCHANGED << cls, adapter, subscriptions, callerVars >>

\* lines 43-44: TopicExists was raised; manager.retrieve(topicname) again
manager_retrieve_again ==
    /\ pc = "retrieve_again"
    /\ \E o \in DirectOutcomes :
          IF o = "ok"
          THEN IF topics = {}
               THEN /\ Raise(Surfaced("retrieve_again", "NoSuchTopic"),
                             "retrieve_again")
                    /\ UNCHANGED topic
               ELSE /\ \E t \in topics : topic' = t
                    /\ pc' = "subscriber_adapter"
                    /\ UNCHANGED err
          ELSE /\ Raise(Surfaced("retrieve_again", o), "retrieve_again")
               /\ UNCHANGED topic
    /\ UNCHANGED << argv, _retries, configurable, monitoring, parameters,
                    _services, _adapter, _mon_adapter, w, envUp, fcmProxy,
                    waited, configured, hook, hookRegs, gp >>
    /\ UNCHANGED << cls, topics, adapter, subscriptions, callerVars >>

\* another process creates the topic between this one's lookup and its
\* create
other_creates ==
    /\ cls = "IngestManager"
    /\ \/ pc = "ret" /\ w.site = "IceStorm"
       \/ pc = "create"
    /\ CanCreate(topics)
    /\ topics' = Created(topics)
    /\ UNCHANGED << pc, argv, _retries, configurable, monitoring,
                    parameters, _services, _adapter, _mon_adapter, w, err,
                    envUp, fcmProxy, waited, configured, hook, hookRegs,
                    gp >>
    /\ UNCHANGED << cls, topic, adapter, subscriptions, callerVars >>

\* lines 47-48: the adapter "SBStateMonitorAdapter" is created and the
\* monitor is added to it under a UUID
createObjectAdapter ==
    /\ pc = "subscriber_adapter"
    /\ \E o \in DirectOutcomes :
          IF o = "ok"
          THEN /\ adapter' = Add(NewAdapter,
                                 SubscriberIdentity, SubscriberImplementation)
               /\ pc' = "adapter_activate"
               /\ UNCHANGED err
          ELSE /\ Raise(Surfaced("subscriber_adapter", o),
                        "subscriber_adapter")
               /\ UNCHANGED adapter
    /\ UNCHANGED << argv, _retries, configurable, monitoring, parameters,
                    _services, _adapter, _mon_adapter, w, envUp, fcmProxy,
                    waited, configured, hook, hookRegs, gp >>
    /\ UNCHANGED << cls, topics, topic, subscriptions, callerVars >>

\* line 49 left out: the subscriber adapter is never activated
adapter_activate_Skipped ==
    /\ pc = "adapter_activate"
    /\ pc' = "subscribe"
    /\ UNCHANGED << argv, _retries, configurable, monitoring, parameters,
                    _services, _adapter, _mon_adapter, w, err, envUp,
                    fcmProxy, waited, configured, hook, hookRegs, gp >>
    /\ UNCHANGED << ingestVars, callerVars >>

\* line 49: adapter.activate(), called once, not through wait_for_service
adapter_activate ==
    /\ pc = "adapter_activate"
    /\ \E o \in DirectOutcomes :
          IF o = "ok"
          THEN /\ adapter' = Activated(adapter)
               /\ pc' = "subscribe"
               /\ UNCHANGED err
          ELSE /\ adapter' = Attempted(adapter)
               /\ Raise(Surfaced("adapter_activate", o), "adapter_activate")
    /\ UNCHANGED << argv, _retries, configurable, monitoring, parameters,
                    _services, _adapter, _mon_adapter, w, envUp, fcmProxy,
                    waited, configured, hook, hookRegs, gp >>
    /\ UNCHANGED << cls, topics, topic, subscriptions, callerVars >>

\* a subscription: the QoS dictionary, the subscriber and the adapter that
\* carries it
Subscription(qos, ad) ==
    [qos |-> qos, subscriber |-> ad.bound[1].name, active |-> ad.active]

\* lines 50-56: topic.subscribeAndGetPublisher({}, subscriber); the hook
\* returns
subscribeAndGetPublisher ==
    /\ pc = "subscribe"
    /\ \E o \in DirectOutcomes :
          IF o = "ok"
          THEN /\ subscriptions' =
                     Append(subscriptions, Subscription(EmptyDict, adapter))
               /\ hook' = "done"
               /\ hookRegs' = Len(_services)
               /\ pc' = "bind"
               /\ UNCHANGED err
          ELSE /\ Raise(Surfaced("subscribe", o), "subscribe")
               /\ UNCHANGED << subscriptions, hook, hookRegs >>
    /\ UNCHANGED << argv, _retries, configurable, monitoring, parameters,
                    _services, _adapter, _mon_adapter, w, envUp, fcmProxy,
                    waited, configured, gp >>
    /\ UNCHANGED << cls, topics, topic, adapter, callerVars >>

(***************************************************************************)
(* setup_services, lines 182-186: each registered descriptor is added to   *)
(* the main adapter, then the adapter is activated                         *)
(***************************************************************************)
\* the loop stops one descriptor short
AllBound_OneShort(services, ad) == Len(ad.bound) >= Len(services) - 1

\* the for loop of line 182 has run out
AllBound(services, ad) == Len(ad.bound) >= Len(services)

bind_service ==
    /\ pc = "bind"
    /\ ~AllBound(_services, _adapter)
    /\ LET service == _services[Len(_adapter.bound) + 1]
       IN  IF CanAdd(_adapter, service.name)
           THEN /\ _adapter' = Add(_adapter, service.name, service.value)
                /\ UNCHANGED << pc, err >>
           ELSE /\ Raise("AlreadyRegisteredException", "bind")
                /\ UNCHANGED _adapter
    /\ UNCHANGED << argv, _retries, configurable, monitoring, parameters,
                    _services, _mon_adapter, w, envUp, fcmProxy, waited,
                    configured, hook, hookRegs, gp >>
    /\ UNCHANGED << ingestVars, callerVars >>

activate_main ==
    /\ pc = "bind"
    /\ AllBound(_services, _adapter)
    /\ w' = NewFrame("main")
    /\ waited' = waited \cup { "main" }
    /\ pc' = "wfs"
    /\ UNCHANGED << argv, _retries, configurable, monitoring, parameters,
                    _services, _adapter, _mon_adapter, err, envUp, fcmProxy,
                    configured, hook, hookRegs, gp >>
    /\ UNCHANGED << ingestVars, callerVars >>

(***************************************************************************)
(* run, lines 192-197: setup_services has returned; wait() blocks in       *)
(* waitForShutdown until the communicator is shut down                     *)
(***************************************************************************)
wait ==
    /\ pc = "ret"
    /\ w.site = "main"
    /\ w' = IdleFrame
    /\ pc' = "running"
    /\ UNCHANGED << argv, _retries, configurable, monitoring, parameters,
                    _services, _adapter, _mon_adapter, err, envUp, fcmProxy,
                    waited, configured, hook, hookRegs, gp >>
    /\ UNCHANGED << ingestVars, callerVars >>

shutdown ==
    /\ pc = "running"
    /\ pc' = "shutdown"
    /\ UNCHANGED << argv, _retries, configurable, monitoring, parameters,
                    _services, _adapter, _mon_adapter, w, err, envUp,
                    fcmProxy, waited, configured, hook, hookRegs, gp >>
    /\ UNCHANGED << ingestVars, callerVars >>

(***************************************************************************)
(* The environment: the registry and the remote services come up           *)
(***************************************************************************)
env_up ==
    /\ ~envUp
    /\ pc \notin { "failed", "shutdown", "running" }
    /\ envUp' = TRUE
    /\ UNCHANGED << pc, argv, _retries, configurable, monitoring,
                    parameters, _services, _adapter, _mon_adapter, w, err,
                    fcmProxy, waited, configured, hook, hookRegs, gp >>
    /\ UNCHANGED << ingestVars, callerVars >>

(***************************************************************************)
(* Two threads of control side by side, each going through                 *)
(* wait_for_service (lines 126-163) for the topic manager and then through *)
(* the retrieve / create / retrieve of ingest/server.py, lines 38-44,      *)
(* against the same topic manager and with the same self._retries          *)
(***************************************************************************)
\* one counter for all the calls in progress
CountOf_Shared(frames, p) == frames[1].count + frames[2].count

\* line 137: count is a local of the call
CountOf(frames, p) == frames[p].count

\* the caller p fails with the exception e
CallerRaise(p, e) ==
    /\ cpc' = [cpc EXCEPT ![p] = "failed"]
    /\ cerr' = [cerr EXCEPT ![p] = e]

\* lines 135-138: a call of wait_for_service starts
caller_start(p) ==
    /\ cpc[p] = "idle"
    /\ cpc' = [cpc EXCEPT ![p] = "wfs"]
    /\ cw' = [cw EXCEPT ![p] = NewFrame("IceStorm")]
    /\ UNCHANGED << ctopic, cerr, cpath, creates, topics >>

\* lines 139-159: one call of the callback and what follows it
caller_call(p) ==
    /\ cpc[p] = "wfs"
    /\ cw[p].status = "calling"
    /\ \E o \in Outcomes(cw[p]) :
          IF o = "ok"
          THEN /\ \E v \in Returns(cw[p].site) :
                     cw' = [cw EXCEPT ![p] = OnSuccess(cw[p], v)]
               /\ cpc' = [cpc EXCEPT ![p] = "retrieve"]
               /\ UNCHANGED cerr
          ELSE IF IsRetryable(o)
               THEN IF BudgetSpent(Budget, CountOf(cw, p))
                    THEN /\ cw' = [cw EXCEPT ![p] = OnExhausted(cw[p], o)]
                         /\ CallerRaise(p, "TimeoutError")
                    ELSE /\ cw' = [cw EXCEPT ![p] = OnRetry(cw[p], o)]
                         /\ UNCHANGED << cpc, cerr >>
               ELSE /\ cw' = [cw EXCEPT ![p] = OnUncaught(cw[p], o)]
                    /\ CallerRaise(p, o)
    /\ UNCHANGED << ctopic, cpath, creates, topics >>

\* line 159 returns
caller_sleep(p) ==
    /\ cpc[p] = "wfs"
    /\ cw[p].status = "sleeping"
    /\ cw' = [cw EXCEPT ![p].status = "calling"]
    /\ UNCHANGED << cpc, ctopic, cerr, cpath, creates, topics >>

\* ingest/server.py lines 38-40
caller_retrieve(p) ==
    /\ cpc[p] = "retrieve"
    /\ IF cw[p].retval = NoneVal
       THEN /\ CallerRaise(p, "AttributeError")
            /\ UNCHANGED << ctopic, cpath >>
       ELSE \E o \in DirectOutcomes :
               IF o = "ok"
               THEN /\ cpath' = [cpath EXCEPT ![p] = Append(@, "retrieve")]
                    /\ IF topics = {}
                       THEN /\ cpc' = [cpc EXCEPT ![p] = "create"]
                            /\ UNCHANGED ctopic
                       ELSE /\ \E t \in topics :
                                  ctopic' = [ctopic EXCEPT ![p] = t]
                            /\ cpc' = [cpc EXCEPT ![p] = "done"]
                    /\ UNCHANGED cerr
               ELSE /\ CallerRaise(p, o)
                    /\ UNCHANGED << ctopic, cpath >>
    /\ UNCHANGED << cw, creates, topics >>

\* ingest/server.py lines 41-42
caller_create(p) ==
    /\ cpc[p] = "create"
    /\ \E o \in DirectOutcomes :
          IF o = "ok"
          THEN /\ cpath' = [cpath EXCEPT ![p] = Append(@, "create")]
               /\ IF CanCreate(topics)
                  THEN /\ topics' = Created(topics)
                       /\ creates' = creates + 1
                       /\ ctopic' = [ctopic EXCEPT ![p] = NewTopic(topics)]
                       /\ cpc' = [cpc EXCEPT ![p] = "done"]
                  ELSE /\ cpc' = [cpc EXCEPT ![p] = "retrieve_again"]
                       /\ UNCHANGED << topics, creates, ctopic >>
               /\ UNCHANGED cerr
          ELSE /\ CallerRaise(p, o)
               /\ UNCHANGED << topics, creates, ctopic, cpath >>
    /\ UNCHANGED cw

\* ingest/server.py lines 43-44
caller_retrieve_again(p) ==
    /\ cpc[p] = "retrieve_again"
    /\ \E o \in DirectOutcomes :
          IF o = "ok"
          THEN /\ cpath' = [cpath EXCEPT ![p] = Append(@, "retrieve")]
               /\ IF topics = {}
                  THEN /\ CallerRaise(p, "NoSuchTopic")
                       /\ UNCHANGED ctopic
                  ELSE /\ \E t \in topics :
                             ctopic' = [ctopic EXCEPT ![p] = t]
                       /\ cpc' = [cpc EXCEPT ![p] = "done"]
                       /\ UNCHANGED cerr
          ELSE /\ CallerRaise(p, o)
               /\ UNCHANGED << ctopic, cpath >>
    /\ UNCHANGED << cw, creates, topics >>

\* what the two callers leave alone
Bootstrap ==
    << pc, argv, _retries, configurable, monitoring, parameters, _services,
       _adapter, _mon_adapter, w, err, envUp, fcmProxy, waited, configured,
       hook, hookRegs, gp, cls, topic, adapter, subscriptions >>

CallerStep(p) ==
    /\ \/ caller_start(p)
       \/ caller_call(p)
       \/ caller_sleep(p)
       \/ caller_retrieve(p)
       \/ caller_create(p)
       \/ caller_retrieve_again(p)
    /\ UNCHANGED Bootstrap

Program ==
    \/ run
    \/ get_config
    \/ _config_from_fcm
    \/ wfs_call
    \/ wfs_sleep
    \/ fcm_get
    \/ setup_monitoring
    \/ monitoring_ready
    \/ initialize_services
    \/ hook_returns
    \/ ingest_register
    \/ manager_retrieve
    \/ manager_create
    \/ manager_retrieve_again
    \/ createObjectAdapter
    \/ adapter_activate
    \/ subscribeAndGetPublisher
    \/ bind_service
    \/ activate_main
    \/ wait

Next ==
    \/ Program
    \/ \E r \in RetryBudgets : set_retries(r)
    \/ \E n \in ServiceNames, v \in Implementations : add_service(n, v)
    \/ \E k \in ParamKeys, d \in Defaults : get_parameter(k, d)
    \/ hook_raises
    \/ shutdown
    \/ env_up
    \/ other_creates

Spec == Init /\ [][Next]_vars

TypeOK ==
    /\ pc \in { "created", "get_config", "config_from_fcm", "wfs", "ret",
                "monitoring", "initialize", "hook", "bind", "running",
                "shutdown", "failed", "register", "create",
                "retrieve_again", "subscriber_adapter", "adapter_activate",
                "subscribe" }
    /\ argv \in Argvs
    /\ _retries \in RetryBudgets
    /\ configurable \in BOOLEAN /\ monitoring \in BOOLEAN
    /\ parameters.none \in BOOLEAN
    /\ Len(_services) <= MaxServices
    /\ w.site \in Sites \cup { "none" }
    /\ w.status \in { "idle", "calling", "sleeping", "returned", "timeout",
                      "fatal" }
    /\ w.count = w.fails \/ w.status = "timeout"
    /\ w.fails <= MaxFailures
    /\ waited \subseteq Sites
    /\ fcmProxy \in { "no", "null", "prx" }
    /\ hook \in { "no", "in", "done" }
    /\ hookRegs <= Len(_services)
    /\ cls \in Classes
    /\ topic \in topics \cup { NoneVal }
    /\ Len(adapter.bound) <= 1
    /\ Len(subscriptions) <= 1

\* a Server built with one budget, its run not started, and two callers
TopicInit ==
    /\ Init
    /\ cls = "Server"
    /\ argv = << ProgArg >>
    /\ ~configurable
    /\ ~monitoring

TopicNext ==
    \/ \E p \in Callers : CallerStep(p)
    \/ env_up

TopicSpec == TopicInit /\ [][TopicNext]_vars

\* the main line of control always takes its next step: a sleep ends, a
\* call returns or raises
LiveSpec == Spec /\ WF_vars(Program)


(***************************************************************************)
(* Properties of wait_for_service                                          *)
(***************************************************************************)
InCall == w.status # "idle"

\* C1: with a budget N >= 0, an invocation whose every call raises a
\* retryable error makes exactly N+1 calls and then raises TimeoutError:
\* the timeout is raised only after N+1 failures in N+1 calls, N+1
\* failures always end in the timeout, and there is never an (N+2)-th call.
C1_TimeoutAfterBudget ==
    /\ w.status = "timeout" =>
          /\ _retries >= 0
          /\ w.fails = _retries + 1
          /\ w.calls = _retries + 1
          /\ err.kind = "TimeoutError"
          /\ pc = "failed"
    /\ (InCall /\ _retries >= 0) => w.calls <= _retries + 1
    /\ (InCall /\ _retries >= 0 /\ w.fails = _retries + 1) =>
          w.status = "timeout"
    /\ err.kind = "TimeoutError" => w.status = "timeout"

C1_Witness ==
    /\ _retries = MaxRetries
    /\ w.status = "timeout"
    /\ w.calls = MaxRetries + 1

\* the state of an invocation that has returned
C2_Returned ==
    w.status = "returned" =>
       /\ w.retval = w.produced
       /\ w.registry
       /\ w.calls = w.fails + 1
       /\ (_retries >= 0 => w.fails <= _retries)
       /\ err = NoErr
       /\ pc = "ret"

\* a call that raises nothing is the last call of its invocation
C2_SuccessEndsTheLoop ==
    /\ (w.status = "calling" /\ w'.site = w.site /\ w'.calls = w.calls + 1
          /\ w'.fails = w.fails /\ w'.raised = "none")
       => (w'.status = "returned" /\ w'.calls = w.fails + 1)
    /\ w.status = "returned" => (w' = w \/ w' = IdleFrame)

\* C2: k <= N retryable failures followed by a success: the invocation
\* returns the value that call produced, after exactly k+1 calls, without
\* a timeout; a call that raises nothing ends the invocation, and the
\* frame makes no call after it.
C2_ReturnsFirstSuccess == []C2_Returned /\ [][C2_SuccessEndsTheLoop]_vars

C2_Witness ==
    /\ _retries = MaxRetries
    /\ w.status = "returned"
    /\ w.fails = MaxRetries
    /\ w.retval = "IFCMServicePrx"

\* C3: with the budget -1 no invocation ends in TimeoutError, however many
\* retryable failures it has seen.
C3_UnboundedNeverTimesOut ==
    _retries = Unbounded =>
       /\ w.status # "timeout"
       /\ err.kind # "TimeoutError"

C3_Witness ==
    /\ _retries = Unbounded
    /\ w.status = "sleeping"
    /\ w.fails > RepeatThreshold

\* once every call succeeds, the invocation returns
C4_Returns ==
    (_retries = Unbounded /\ pc = "wfs" /\ envUp) ~> (w.status = "returned")

\* a retryable failure is followed by the sleep, nothing else
C4_FailureKeepsWaiting ==
    (_retries = Unbounded /\ w.status = "calling"
       /\ w'.calls = w.calls + 1
       /\ (w'.fails = w.fails + 1 \/ w'.raised \in Retryable))
    => (w'.status = "sleeping" /\ pc' = "wfs" /\ err' = NoErr)

\* C4: with the budget -1, once the operation succeeds on every call the
\* invocation returns; and a call that raises a retryable error leaves the
\* invocation in its loop: it neither returns nor raises.
C4_UnboundedEventuallyReturns ==
    C4_Returns /\ [][C4_FailureKeepsWaiting]_vars

C4_Witness ==
    /\ _retries = Unbounded
    /\ envUp
    /\ w.status = "returned"
    /\ w.fails > MaxRetries

\* C5: an exception that is not of a retryable class leaves
\* wait_for_service as it is: it ends the run under its own name, never as
\* TimeoutError, no sleep follows it and the program takes no further step.
C5_FatalPropagates ==
    /\ w.status = "fatal" =>
          /\ w.raised \in NotRetryable
          /\ err.kind = w.raised
          /\ pc = "failed"
          /\ w.calls = w.fails + 1
          /\ w.sleeps = w.fails
          /\ ~ ENABLED Program
    /\ w.raised \in NotRetryable => w.status = "fatal"

C5_Witness ==
    /\ w.status = "fatal"
    /\ w.raised = "ObjectNotExistException"
    /\ w.fails = 2
    /\ _retries = 2


(***************************************************************************)
(* Properties of the configuration stage                                   *)
(***************************************************************************)
\* what dict.get(<service_key>.<key>, default) is to answer
Stored(key, default) ==
    IF Join(ServiceKey, key) \in DOMAIN parameters.d
    THEN parameters.d[Join(ServiceKey, key)]
    ELSE default

\* C6: get_parameter(key, default) never raises and answers the stored
\* value of '<service_key>.<key>' or, when there is none, the default; also
\* when the service is not configurable.
C6_LookupTotal ==
    gp.called => (~gp.raised /\ gp.value = Stored(gp.key, gp.default))

\* the path the first --config= argument names, expanded
FlaggedPath ==
    LET arg == argv[CHOOSE i \in 1..Len(argv) :
                       /\ StartsWith(argv[i], ConfigKey)
                       /\ \A j \in 1..(i - 1) : ~StartsWith(argv[j], ConfigKey)]
    IN  ExpandPath(SubSeq(arg, Len(ConfigKey) + 1, Len(arg)))

\* C7: with a --config=<path> argument the configuration stage is local:
\* the FCM proxy is never resolved and wait_for_service is never entered
\* for the FCM; the stage ends in its one step, with the parameters read
\* from that file or with an error of the local read, never with an error
\* of the broker or a timeout.
C7_LocalConfigOnly ==
    HasConfigArg(argv) =>
       /\ fcmProxy = "no"
       /\ "FCM" \notin waited
       /\ pc # "config_from_fcm"
       /\ (configurable /\ configured) =>
             parameters = ParamsOf(ParsetToDict(FileText(FlaggedPath)))
       /\ (configurable /\ pc \notin { "created", "get_config" }) =>
             \/ configured
             \/ /\ pc = "failed"
                /\ err.at = "get_config"
                /\ err.kind \in { "ValueError", "IOError", "ParsetError" }

C7_Witness ==
    /\ HasConfigArg(argv)
    /\ Len(argv) > 2
    /\ configurable
    /\ ~envUp
    /\ pc = "running"
    /\ parameters = ParamsOf(ParsetToDict(OtherText))

\* C8: when stringToProxy gives no proxy for the FCM, the run ends with the
\* RuntimeError "Invalid Proxy": wait_for_service is not entered, no
\* parameters are fetched, self.parameters stays None and the hook is
\* never run.
C8_InvalidProxyIsFatal ==
    fcmProxy = "null" =>
       /\ pc = "failed"
       /\ err = [kind |-> "RuntimeError", at |-> "config_from_fcm"]
       /\ waited = {}
       /\ w = IdleFrame
       /\ parameters = ParamsNone
       /\ ~configured
       /\ hook = "no"
       /\ ~ ENABLED Program

C8_Witness ==
    /\ fcmProxy = "null"
    /\ err.kind = "RuntimeError"
    /\ ~HasConfigArg(argv)

(***************************************************************************)
(* Properties of the order of the stages                                   *)
(***************************************************************************)
Adapters == { _adapter, _mon_adapter }

\* nothing is bound into an adapter once its activation has been tried
C9_NoBindingAfterAttempt ==
    /\ _adapter.tried => _adapter'.bound = _adapter.bound
    /\ _mon_adapter.tried => _mon_adapter'.bound = _mon_adapter.bound

\* the order of the stages, asked of both adapters
C9_OrderedEverywhere ==
    /\ hook # "no" => configured
    /\ \A ad \in Adapters : ad.bound # << >> => hook = "done"
    /\ \A ad \in Adapters : ad.tried => hook = "done"

C9_MainOrdered ==
    /\ hook # "no" => configured
    /\ _adapter.bound # << >> => hook = "done"
    /\ _adapter.tried => (hook = "done" /\ Len(_adapter.bound) >= hookRegs)
    /\ _mon_adapter.created =>
          (configured /\ monitoring /\ Names(_mon_adapter.bound) = { MonitoringIdentity })
    /\ (monitoring /\ hook # "no") => _mon_adapter.active
    /\ (~monitoring) => _mon_adapter = NoAdapter

C10_AllBoundBeforeActivation ==
    (_adapter.tried \/ w.site = "main") =>
       /\ hook = "done"
       /\ Len(_adapter.bound) >= hookRegs
       /\ \A i \in 1..hookRegs : _adapter.bound[i] = _services[i]

C10_Witness ==
    /\ w.site = "main"
    /\ w.status = "sleeping"
    /\ _adapter.tried
    /\ hookRegs = MaxServices
    /\ Len(_adapter.bound) = MaxServices


(***************************************************************************)
(* Properties of the registry of descriptors and of the running state      *)
(***************************************************************************)
\* _services changes only by one descriptor appended at its end
C11_AppendOnly ==
    _services' # _services =>
       \E n \in ServiceNames, v \in Implementations \cup { IngestImplementation } :
          _services' = Append(_services, Descriptor(n, v))

\* what is bound in the main adapter is a prefix of _services, and when
\* the activation is tried it is the whole list the hook registered
C11_BoundInOrder ==
    /\ Len(_adapter.bound) <= Len(_services)
    /\ _adapter.bound = SubSeq(_services, 1, Len(_adapter.bound))
    /\ _adapter.tried => _adapter.bound = SubSeq(_services, 1, hookRegs)

\* C11: add_service appends without looking at the names, so the list is
\* the calls in their order, repeated names included; at activation time
\* the main adapter holds each registered descriptor once, in that order.
C11_RegistryKeepsOrder ==
    []C11_BoundInOrder /\ [][C11_AppendOnly]_vars

C11_Witness ==
    /\ _adapter.active
    /\ Len(_adapter.bound) = 1
    /\ Len(_services) = 2
    /\ _services[1].name = _services[2].name
    /\ _services[1].value # _services[2].value

\* the state in which the process waits for its shutdown
C12_RunningState ==
    /\ pc \in { "running", "shutdown" } =>
          /\ configured
          /\ hook = "done"
          /\ Len(_adapter.bound) = hookRegs
          /\ "main" \in waited
          /\ _adapter.active
          /\ monitoring => ("mon" \in waited /\ _mon_adapter.active)
          /\ err = NoErr
    /\ err # NoErr <=> pc = "failed"

\* a run that has failed stays failed
C12_FailureIsFinal ==
    pc = "failed" => (pc' = "failed" /\ err' = err)

\* C12: the wait for the shutdown is entered only with the configuration
\* stage and the hook over, the main adapter activated and, with
\* monitoring, the monitoring adapter activated; a run that an exception
\* or a timeout has ended never gets there.
C12_RunningOnlyAfterActivation ==
    []C12_RunningState /\ [][C12_FailureIsFinal]_vars

C12_Witness ==
    /\ pc = "running"
    /\ monitoring
    /\ fcmProxy = "prx"
    /\ hookRegs = MaxServices

\* C15: a descriptor registered after the main adapter was activated is
\* not lost: by the time the process shuts down every descriptor that
\* add_service accepted is bound in the adapter.
C15_NoLateRegistrationLost ==
    pc = "shutdown" => Len(_adapter.bound) = Len(_services)

\* the configuration of the scenario: read from the file of --config=,
\* with retries = 3
ScenarioConfig ==
    /\ HasConfigArg(argv)
    /\ parameters = ParamsOf(ParsetToDict(GoodText))
    /\ parameters.d[Join(ServiceKey, "retries")] = "3"

Activation == InCall /\ w.site \in { "mon", "main" }

\* C16 as stated: with retries = 3 in the loaded configuration the
\* activation gives up with TimeoutError at its 4th failed attempt.
C16_BudgetFromConfiguration ==
    (ScenarioConfig /\ Activation) =>
       /\ w.calls <= 3 + 1
       /\ w.fails = 3 + 1 => w.status = "timeout"
       /\ w.status = "timeout" => w.calls = 3 + 1

\* the activation gives up exactly when self._retries is spent
C16_BudgetUsed ==
    Activation =>
       /\ w.status = "timeout" <=> (_retries >= 0 /\ w.fails = _retries + 1)
       /\ w.status = "timeout" =>
             (w.calls = _retries + 1 /\ pc = "failed" /\ ~ ENABLED Program)

\* nothing but set_retries, before run, changes the budget
C16_BudgetFixed == pc # "created" => _retries' = _retries

\* C16 as the code has it: the budget of the activation is self._retries,
\* set by the constructor or set_retries; the loaded configuration does
\* not change it.  With a budget N >= 0 and a registry that is never
\* reached the run ends with TimeoutError after exactly N+1 attempts.
C16_BudgetIsTheConstructors ==
    []C16_BudgetUsed /\ [][C16_BudgetFixed]_vars

C16_Witness ==
    /\ ScenarioConfig
    /\ _retries = 1
    /\ w.site = "main"
    /\ w.status = "timeout"
    /\ w.calls = 2

\* C17: without the monitoring flag no monitoring adapter is created,
\* bound or activated; with it there is one, holding the one descriptor
\* "MonitoringService" from before its first activation attempt, and its
\* activation runs in wait_for_service with the budget and the exception
\* classes of every other call.
C17_MonitoringOnlyOnRequest ==
    /\ ~monitoring =>
          (_mon_adapter = NoAdapter /\ "mon" \notin waited /\ w.site # "mon")
    /\ (monitoring /\ hook # "no") => _mon_adapter.created
    /\ _mon_adapter.created =>
          /\ monitoring
          /\ "mon" \in waited
          /\ _mon_adapter.bound =
                << Descriptor(MonitoringIdentity, "MonitoringProviderImpl") >>
    /\ _mon_adapter.tried => w.site = "mon" \/ _mon_adapter.active
    /\ w.site = "mon" =>
          /\ w.servicename = "registry"
          /\ w.status = "timeout" <=>
                (_retries >= 0 /\ w.fails = _retries + 1)
          /\ w.status = "fatal" <=> w.raised \in NotRetryable
          /\ w.status = "returned" <=> _mon_adapter.active

C17_Witness ==
    /\ monitoring
    /\ w.site = "mon"
    /\ w.status = "returned"
    /\ w.fails = MaxRetries
    /\ _mon_adapter.active

(***************************************************************************)
(* Progress of the bootstrap                                               *)
(***************************************************************************)
Ended == pc \in { "running", "shutdown", "failed" }

\* with a bounded budget every wait ends, so the run ends one way or the
\* other
C20_BoundedEnds == (_retries >= 0 /\ pc # "created") ~> Ended

\* the configuration is resolved, the budget is unbounded and every
\* remote operation succeeds from now on
C20_Setting ==
    /\ envUp
    /\ _retries = Unbounded
    /\ configured
    /\ pc \notin { "failed", "shutdown" }

\* with an unbounded budget no activation ends the run because of a
\* connectivity failure
\* the places where the hook, or a binding of what it registered, fails
HookSteps == { "hook", "bind", "register", "retrieve" }

C20_ConnectivityNeverFatal ==
    (_retries = Unbounded /\ pc # "created") =>
       /\ w.status # "timeout"
       /\ err.kind # "TimeoutError"
       /\ err.at \in { "mon", "main", "IceStorm" } =>
             err.kind \in NotRetryable

\* C20: with a bounded budget the run ends, running or failed; with an
\* unbounded one, the configuration resolved and the registry reachable
\* from some point on, the run reaches the wait for shutdown unless the
\* hook or a binding of what it registered raised; connectivity failures
\* of the activations are never fatal with an unbounded budget.
C20_StartupProgress ==
    /\ C20_BoundedEnds
    /\ C20_Setting ~> (pc = "running" \/ err.at \in HookSteps)
    /\ []C20_ConnectivityNeverFatal

C20_Witness ==
    /\ pc = "running"
    /\ _retries = Unbounded
    /\ envUp
    /\ monitoring
    /\ "FCM" \in waited
    /\ hookRegs = MaxServices

(***************************************************************************)
(* The hook of IngestManager                                               *)
(***************************************************************************)
\* the steps of the subscribe sequence, lines 28-53, as places of failure
SubscribeSteps ==
    { "IceStorm", "retrieve", "create", "retrieve_again" } \cup TrySteps

AllAdapters == { _adapter, _mon_adapter, adapter }

\* C19: no adapter, the subscriber's included, has an activation tried
\* before get_config has returned, and nothing is bound into an adapter
\* that has not been created; no subscription is made before either.
C19_NothingBeforeConfiguration ==
    /\ \A ad \in AllAdapters :
          /\ ad.tried => configured
          /\ ad.active => ad.tried
          /\ ad.bound # << >> => ad.created
    /\ subscriptions # << >> => (configured /\ adapter.created)

C19_Witness ==
    /\ cls = "IngestManager"
    /\ configured
    /\ adapter.active
    /\ _mon_adapter.active
    /\ _adapter.active
    /\ \A ad \in AllAdapters : ad.bound # << >>

(***************************************************************************)
(* Two callers side by side                                                *)
(***************************************************************************)
\* the calls a caller makes on the topic manager: retrieve alone,
\* retrieve and create, or retrieve, create and retrieve
Paths ==
    { << >>, << "retrieve" >>, << "retrieve", "create" >>,
      << "retrieve", "create", "retrieve" >> }

\* C13: two callers that interleave retrieve, create and retrieve on the
\* one topic name never make two topics: at most one create succeeds,
\* the callers that are through hold the same topic, the one the manager
\* holds, and neither NoSuchTopic nor TopicExists ends either of them.
C13_GetOrCreateOnce ==
    /\ creates <= 1
    /\ Cardinality(topics) = creates
    /\ \A p \in Callers :
          /\ cerr[p] \notin { "NoSuchTopic", "TopicExists" }
          /\ cpath[p] \in Paths
          /\ cpc[p] = "done" <=> ctopic[p] # NoneVal
          /\ cpc[p] = "done" =>
                (cpath[p] # << >> /\ cerr[p] = "none" /\ ctopic[p] \in topics)
    /\ \A p, q \in Callers :
          (cpc[p] = "done" /\ cpc[q] = "done") => ctopic[p] = ctopic[q]

C13_Witness ==
    /\ cpc[1] = "done" /\ cpc[2] = "done"
    /\ cpath[1] = << "retrieve", "create", "retrieve" >>
    /\ cpath[2] = << "retrieve", "create" >>
    /\ creates = 1

\* what a call that runs alone satisfies, for the frame f
AsIfAlone(f) ==
    /\ f.count = IF f.status = "timeout" THEN f.fails - 1 ELSE f.fails
    /\ f.status = "timeout" <=> (_retries >= 0 /\ f.fails = _retries + 1)
    /\ f.status = "timeout" => f.calls = _retries + 1
    /\ f.status = "returned" =>
          (f.calls = f.fails + 1 /\ f.retval = f.produced)
    /\ f.status = "fatal" <=> f.raised \in NotRetryable

\* a step of one call leaves the frame of the other as it is, and moves
\* its own count from c to c or c + 1
C18_FramesApart ==
    \A p \in Callers :
       cw'[p] # cw[p] =>
          /\ \A q \in Callers \ { p } : cw'[q] = cw[q]
          /\ cw'[p].count \in { 0, cw[p].count, cw[p].count + 1 }

\* C18: two calls of wait_for_service that interleave each keep their own
\* count from 0: each ends as it would alone, with its value or with
\* TimeoutError after exactly its own N+1 failures, whatever the other
\* one has met.
C18_NoInterference ==
    [](\A p \in Callers : AsIfAlone(cw[p])) /\ [][C18_FramesApart]_vars

C18_Witness ==
    /\ _retries = 2
    /\ cw[1].status = "timeout"
    /\ cw[1].fails = 3
    /\ cw[2].status = "returned"
    /\ cw[2].fails = 2

(***************************************************************************)
(* The subscription, the notices and the sleeps                            *)
(***************************************************************************)
\* a subscription is made with the topic held and the subscriber adapter
\* active
C21_SubscribesLast ==
    subscriptions' # subscriptions =>
       /\ topic # NoneVal
       /\ adapter.created /\ adapter.active
       /\ subscriptions = << >>

\* what holds of a subscription that was made
C21_Subscribed ==
    /\ pc = "subscribe" => (topic \in topics /\ adapter.active)
    /\ adapter.tried => topic \in topics
    /\ subscriptions # << >> =>
          /\ topic \in topics
          /\ adapter.created /\ adapter.tried /\ adapter.active
          /\ subscriptions[1].qos = EmptyDict
          /\ subscriptions[1].active
          /\ subscriptions[1].subscriber = SubscriberIdentity
          /\ adapter.bound =
                << Descriptor(SubscriberIdentity, SubscriberImplementation) >>
    /\ SubscriberIdentity \notin
          Names(_adapter.bound) \cup Names(_mon_adapter.bound)

\* C21: the subscriber is subscribed to the topic after the topic was
\* retrieved or created and after the adapter made for it was created and
\* activated, with an empty QoS dictionary; the main adapter never holds
\* the subscriber.
C21_SubscriberAfterItsAdapter ==
    []C21_Subscribed /\ [][C21_SubscribesLast]_vars

C21_Witness ==
    /\ pc = "running"
    /\ Len(subscriptions) = 1
    /\ topic = "topic1"
    /\ adapter.active
    /\ _adapter.active

Min(a, b) == IF a < b THEN a ELSE b

\* C22 as stated: "Waiting for" is given at attempt 0, at most once in a
\* call and for every first failure; "Repeated 10+ times" once, when the
\* count reaches the threshold; "found" once, if and only if the call
\* returns.
C22_ProgressAtAttemptZero ==
    InCall =>
       /\ w.waiting = IF w.fails > 0 THEN 1 ELSE 0
       /\ w.repeated = IF w.count > RepeatThreshold THEN 1 ELSE 0
       /\ w.found = IF w.status = "returned" THEN 1 ELSE 0

\* C22 as the code has it: "Waiting for" is given for every failure that
\* is retried while the count is below the threshold, and not for the
\* failure that spends the budget; "Repeated 10+ times" once, for the
\* failure met with the count at the threshold; "found" once, if and only
\* if the call returns.  The count and the outcome are what they are
\* without the notices.
C22_NoticesFollowTheCount ==
    InCall =>
       /\ w.waiting = Min(w.count, RepeatThreshold)
       /\ w.repeated = IF w.count > RepeatThreshold THEN 1 ELSE 0
       /\ w.found = IF w.status = "returned" THEN 1 ELSE 0
       /\ AsIfAlone(w)

C22_Witness ==
    /\ w.status = "returned"
    /\ w.count = RepeatThreshold + 1
    /\ w.waiting = RepeatThreshold
    /\ w.repeated = 1
    /\ w.found = 1

\* the sleeps of a call and what they add up to
C23_Sleeps ==
    InCall =>
       /\ w.delay = Delay
       /\ w.slept = Delay * w.sleeps
       /\ w.sleeps = w.count
       /\ w.status \in { "calling", "sleeping" } => w.sleeps = w.calls
       /\ w.status \in { "returned", "timeout", "fatal" } =>
             w.sleeps = w.calls - 1
       /\ w.status = "timeout" => (w.sleeps = _retries /\ w.fails = _retries + 1)

\* a sleep starts with a failure that is retried, and a call is made with
\* as many sleeps behind it as calls
C23_OneSleepPerRetry ==
    /\ w'.sleeps # w.sleeps =>
          \/ w'.sleeps = 0
          \/ /\ w'.sleeps = w.sleeps + 1
             /\ w'.fails = w.fails + 1
             /\ w'.status = "sleeping"
    /\ (w'.calls = w.calls + 1 /\ w.calls > 0) =>
          (w.status = "calling" /\ w.sleeps = w.calls)

\* C23: every retry sleeps once, for the same 5 seconds: one sleep lies
\* between two consecutive calls, none follows the call that returns or
\* the failure that spends the budget, so N+1 failures with budget N
\* sleep N times.
C23_FixedDelayOncePerRetry ==
    []C23_Sleeps /\ [][C23_OneSleepPerRetry]_vars

C23_Witness ==
    /\ _retries = MaxRetries
    /\ w.status = "timeout"
    /\ w.fails = MaxRetries + 1
    /\ w.sleeps = MaxRetries
    /\ w.slept = Delay * MaxRetries

\* C24: with monitoring the hook is entered, and the main adapter bound,
\* only with the monitoring adapter bound and activated; a run that the
\* activation of the monitoring adapter ends with TimeoutError has not
\* entered the hook, has bound nothing into the main adapter and has not
\* tried to activate it.
C24_MonitoringBeforeTheHook ==
    /\ (monitoring /\ (hook # "no" \/ _adapter.bound # << >>)) =>
          /\ _mon_adapter.active
          /\ Names(_mon_adapter.bound) = { MonitoringIdentity }
    /\ err.at = "mon" =>
          /\ hook = "no"
          /\ _services = << >>
          /\ _adapter.bound = << >>
          /\ ~_adapter.tried
          /\ "main" \notin waited
          /\ pc = "failed"

C24_Witness ==
    /\ err = [kind |-> "TimeoutError", at |-> "mon"]
    /\ _retries = 1
    /\ w.calls = 2
    /\ _mon_adapter.tried
    /\ ~_mon_adapter.active

\* the count of a call with a budget N >= 0
C25_CountBounded ==
    (w.site # "none" /\ _retries >= 0) =>
       /\ 0 <= w.count /\ w.count <= _retries
       /\ w.calls \in { w.count, w.count + 1 }
       /\ w.calls = w.count + 1 <=>
             w.status \in { "returned", "timeout", "fatal" }

\* the count starts at 0 and moves by one, with a failure that is retried
C25_CountSteps ==
    w'.count # w.count =>
       \/ w'.count = 0
       \/ /\ w'.count = w.count + 1
          /\ w'.fails = w.fails + 1
          /\ w'.status = "sleeping"
          /\ w'.site = w.site

\* C25: in a call with a budget N >= 0 the count stays between 0 and N,
\* starts at 0, moves only by +1 and only on a failure that is retried,
\* and the calls made are the count or the count plus one, so that the
\* test count = N is never stepped over.
C25_CountNeverStepsOver ==
    []C25_CountBounded /\ [][C25_CountSteps]_vars

C25_Witness ==
    /\ _retries = MaxRetries
    /\ w.count = MaxRetries
    /\ w.calls = MaxRetries + 1
    /\ w.status = "timeout"
    /\ w.site = "main"

=============================================================================
